---- MODULE Spec2Model ----
(***************************************************************************)
(* Model of app.py: the ATS scan handler (ats_tool), the resume builder    *)
(* handler (resume_builder), the reasoning-engine wrapper                  *)
(* (analyze_with_gemini) and the text formatters (smart_format_text,       *)
(* smart_format_skills).                                                   *)
(*                                                                         *)
(* A Python str is a sequence of one-character strings; None is the        *)
(* one-element sequence NoneStr, which no character sequence equals.       *)
(***************************************************************************)
EXTENDS Integers, Sequences, FiniteSets, TLC

(***************************************************************************)
(* Bounds                                                                  *)
(***************************************************************************)
\* longest enumerated input string of the formatters
MaxLen == 5

(***************************************************************************)
(* Python str primitives                                                   *)
(***************************************************************************)
NoneStr == <<"<None>">>

LowerLetters == <<"a", "c", "e", "i", "m", "n", "r", "s", "t", "u", "v", "y">>
UpperLetters == <<"A", "C", "E", "I", "M", "N", "R", "S", "T", "U", "V", "Y">>

IndexOf(c, letters) ==
    IF \E k \in 1..Len(letters) : letters[k] = c
    THEN CHOOSE k \in 1..Len(letters) : letters[k] = c
    ELSE 0

\* str.isspace() on one character
IsSpace(c) == c \in {" ", "\t", "\n"}

\* a cased character: one that has an upper and a lower form
IsCased(c) == IndexOf(c, LowerLetters) > 0 \/ IndexOf(c, UpperLetters) > 0

UpperChar(c) ==
    IF IndexOf(c, LowerLetters) > 0 THEN UpperLetters[IndexOf(c, LowerLetters)] ELSE c

LowerChar(c) ==
    IF IndexOf(c, UpperLetters) > 0 THEN LowerLetters[IndexOf(c, UpperLetters)] ELSE c

RECURSIVE LStrip(_)
LStrip(s) == IF s # <<>> /\ IsSpace(Head(s)) THEN LStrip(Tail(s)) ELSE s

RECURSIVE RStrip(_)
RStrip(s) ==
    IF s # <<>> /\ IsSpace(s[Len(s)]) THEN RStrip(SubSeq(s, 1, Len(s) - 1)) ELSE s

\* str.strip()
Strip(s) == RStrip(LStrip(s))

\* str.title(): a cased character is upper-cased when the character before it
\* is not cased (or there is none) and lower-cased otherwise
Title(s) ==
    [k \in 1..Len(s) |->
        IF ~IsCased(s[k]) THEN s[k]
        ELSE IF k > 1 /\ IsCased(s[k - 1]) THEN LowerChar(s[k])
        ELSE UpperChar(s[k])]

StartsWith(s, p) == Len(s) >= Len(p) /\ SubSeq(s, 1, Len(p)) = p

\* str.replace(old, new) for a non-empty old: left to right, non-overlapping
RECURSIVE Replace(_, _, _)
Replace(s, old, new) ==
    IF s = <<>> THEN <<>>
    ELSE IF StartsWith(s, old)
         THEN new \o Replace(SubSeq(s, Len(old) + 1, Len(s)), old, new)
         ELSE <<Head(s)>> \o Replace(Tail(s), old, new)

\* "not text" of a str-or-None
Falsy(text) == text = NoneStr \/ text = <<>>

(***************************************************************************)
(* The text formatters                                                     *)
(***************************************************************************)
UniSp == <<" ", "U", "n", "i", " ">>
Uni == <<" ", "U", "n", "i">>
UniversitySp == <<" ", "U", "n", "i", "v", "e", "r", "s", "i", "t", "y", " ">>
University == <<" ", "U", "n", "i", "v", "e", "r", "s", "i", "t", "y">>

smart_format_text(text) ==
    IF Falsy(text) THEN <<>>
    ELSE Replace(Replace(Title(Strip(text)), UniSp, UniversitySp), Uni, University)

\* a delimiter of re.split(r'[,\s]+', text)
IsDelim(c) == c = "," \/ IsSpace(c)

\* re.split(r'[,\s]+', text): the fragments between maximal runs of delimiters;
\* cur is the fragment being read, inRun whether the last character was a
\* delimiter.  A leading or trailing run leaves an empty fragment.
RECURSIVE SplitFrom(_, _, _)
SplitFrom(s, cur, inRun) ==
    IF s = <<>> THEN <<cur>>
    ELSE IF IsDelim(Head(s))
         THEN IF inRun THEN SplitFrom(Tail(s), cur, TRUE)
              ELSE <<cur>> \o SplitFrom(Tail(s), <<>>, TRUE)
         ELSE SplitFrom(Tail(s), Append(cur, Head(s)), FALSE)

re_split(text) == SplitFrom(text, <<>>, FALSE)

\* ", ".join(parts)
RECURSIVE Join(_)
Join(parts) ==
    IF parts = <<>> THEN <<>>
    ELSE IF Len(parts) = 1 THEN parts[1]
    ELSE parts[1] \o <<",", " ">> \o Join(Tail(parts))

\* variant: the empty fragments are kept
RECURSIVE CleanParts_keep_empty(_)
CleanParts_keep_empty(parts) ==
    IF parts = <<>> THEN <<>>
    ELSE <<Title(Strip(Head(parts)))>> \o CleanParts_keep_empty(Tail(parts))

\* [p.strip().title() for p in parts if p.strip()]
RECURSIVE CleanParts(_)
CleanParts(parts) ==
    IF parts = <<>> THEN <<>>
    ELSE IF Strip(Head(parts)) # <<>>
         THEN <<Title(Strip(Head(parts)))>> \o CleanParts(Tail(parts))
         ELSE CleanParts(Tail(parts))

smart_format_skills(text) ==
    IF Falsy(text) THEN <<>>
    ELSE Join(CleanParts(re_split(text)))

(***************************************************************************)
(* JSON values.  Every value is a record of one shape, tagged by t: an     *)
(* int carries n, a str carries s (a sequence of text pieces), a list      *)
(* carries l (a sequence of strings).  JAbsent is a key a dict lacks.      *)
(***************************************************************************)
JInt(n) == [t |-> "int", n |-> n, s |-> <<>>, l |-> <<>>]
JStr(s) == [t |-> "str", n |-> 0, s |-> s, l |-> <<>>]
JList(l) == [t |-> "list", n |-> 0, s |-> <<>>, l |-> l]
JAbsent == [t |-> "absent", n |-> 0, s |-> <<>>, l |-> <<>>]

\* a Python dict restricted to the five keys the prompt names; extra tells
\* whether it has further keys
Dict(score, summary, grammar_errors, missing_keywords, improvements, extra) ==
    [kind |-> "dict", score |-> score, summary |-> summary,
     grammar_errors |-> grammar_errors, missing_keywords |-> missing_keywords,
     improvements |-> improvements, extra |-> extra]

\* a value that is not a dict: None ("none") or a JSON array ("list")
NonDict(kind) ==
    [kind |-> kind, score |-> JAbsent, summary |-> JAbsent,
     grammar_errors |-> JAbsent, missing_keywords |-> JAbsent,
     improvements |-> JAbsent, extra |-> FALSE]

None == NonDict("none")

(***************************************************************************)
(* The reasoning engine's reply: a sequence of pieces.  A piece is a code  *)
(* fence, white space, or a span of text named by what json.loads makes of *)
(* it.                                                                     *)
(***************************************************************************)
\* the markdown fence markers: three backticks followed by json, and three backticks
FenceJson == "<fence>json"
Fence == "<fence>"

FullObject == Dict(JInt(82), JStr(<<"Solid backend profile">>), JList(<<"teh">>),
                   JList(<<"Go">>), JList(<<"Add Go projects">>), FALSE)

\* json.loads of a fence-free, stripped span: ok tells whether it parses
json_span(piece) ==
    CASE piece = "{full}" -> [ok |-> TRUE, value |-> FullObject]
      [] piece = "{omits}" ->
            [ok |-> TRUE,
             value |-> Dict(JAbsent, JStr(<<"Weak match">>), JAbsent, JAbsent, JAbsent, FALSE)]
      [] piece = "{extra}" ->
            [ok |-> TRUE,
             value |-> Dict(JInt(150), JStr(<<"Great">>), JList(<<>>), JList(<<>>),
                            JList(<<>>), TRUE)]
      [] piece = "{mistyped}" ->
            [ok |-> TRUE,
             value |-> Dict(JStr(<<"high">>), JInt(7), JStr(<<"none">>), JList(<<>>),
                            JAbsent, FALSE)]
      [] piece = "[array]" -> [ok |-> TRUE, value |-> NonDict("list")]
      [] OTHER -> [ok |-> FALSE, value |-> None]

\* str.replace(piece, '') on a reply
RemovePiece(text, piece) == SelectSeq(text, LAMBDA x : x # piece)

\* response.text with both fence markers removed, then .strip()
clean_json(text) == Strip(RemovePiece(RemovePiece(text, FenceJson), Fence))

\* json.loads: one parseable span and nothing else
json_loads(text) ==
    IF Len(text) = 1 THEN json_span(text[1]) ELSE [ok |-> FALSE, value |-> None]

JSONDecodeError == "Expecting value: line 1 column 1 (char 0)"

(***************************************************************************)
(* An engine outcome: model.generate_content(prompt) raises (transport,    *)
(* authentication, quota, blocked reply) with a cause, or returns text.    *)
(***************************************************************************)
Raised(cause) == [raised |-> TRUE, cause |-> cause, text |-> <<>>]
Replied(text) == [raised |-> FALSE, cause |-> "", text |-> text]
NoOutcome == [raised |-> FALSE, cause |-> "", text |-> <<"<none>">>]

AnalysisReplies ==
    { <<FenceJson, "\n", "{full}", "\n", Fence>>,
      <<"{omits}">>,
      <<"{extra}", "\n">>,
      <<"{mistyped}">>,
      <<Fence, "[array]", Fence>>,
      <<FenceJson, "\n", "{truncated">>,
      <<"prose">> }

EngineFailures == {"503 Service Unavailable", "API key not valid"}

AnalysisOutcomes ==
    {Raised(c) : c \in EngineFailures} \cup {Replied(t) : t \in AnalysisReplies}

FailureHint == "Check API Key or Internet connection."

\* the dict of the except branch
FailureResult(cause) ==
    Dict(JInt(0), JStr(<<"AI Analysis Failed. Error: ", cause>>), JList(<<>>),
         JList(<<>>), JList(<<FailureHint>>), FALSE)

\* variant: only a raising call ends in the failure dict; a reply that does
\* not parse is passed on as parsed
analyze_with_gemini_transport_only(outcome) ==
    IF outcome.raised THEN FailureResult(outcome.cause)
    ELSE json_loads(clean_json(outcome.text)).value

\* the return value of analyze_with_gemini for an engine outcome; every
\* Exception of the try block ends in the except branch, so it never raises
analyze_with_gemini(outcome) ==
    IF outcome.raised THEN FailureResult(outcome.cause)
    ELSE IF json_loads(clean_json(outcome.text)).ok
         THEN json_loads(clean_json(outcome.text)).value
         ELSE FailureResult(JSONDecodeError)

(***************************************************************************)
(* Uploaded documents and the upload folder                                *)
(***************************************************************************)
\* a PDF: readable tells whether PdfReader accepts the container; pages holds
\* what page.extract_text() returns for each page (NoneStr for None)
DocCorrupt == [readable |-> FALSE, pages |-> <<>>]
DocScanned == [readable |-> TRUE, pages |-> <<NoneStr, <<>>>>]
DocPython == [readable |-> TRUE, pages |-> <<<<"Python">>, NoneStr, <<"Go">>>>]
DocJava == [readable |-> TRUE, pages |-> <<<<"Java">>>>]
Docs == {DocCorrupt, DocScanned, DocPython, DocJava}

\* text += page.extract_text() or "" over the pages in order
RECURSIVE PagesText(_)
PagesText(pages) ==
    IF pages = <<>> THEN <<>>
    ELSE (IF Falsy(Head(pages)) THEN <<>> ELSE Head(pages)) \o PagesText(Tail(pages))

\* a path of the upload folder: absent, or a file holding a document; writer
\* is the request that wrote it (history, not read by the program)
NoFile == [exists |-> FALSE, doc |-> DocCorrupt, writer |-> 0]
FileOf(doc, r) == [exists |-> TRUE, doc |-> doc, writer |-> r]

\* extract_text_from_pdf(filepath) on the file now at the path: open() or
\* PdfReader raising ends in the except branch, which returns ""
extract_text_from_pdf(file) ==
    IF ~file.exists \/ ~file.doc.readable THEN <<>>
    ELSE PagesText(file.doc.pages)

\* werkzeug's secure_filename: path separators become spaces, the white-space
\* separated words are joined by "_", characters outside [A-Za-z0-9_.-] are
\* dropped, leading and trailing "." and "_" are stripped
IsWord(c) == IsCased(c) \/ c \in {"0", "1", "_", ".", "-"}

RECURSIVE StripDots(_)
StripDots(s) ==
    IF s # <<>> /\ Head(s) \in {".", "_"} THEN StripDots(Tail(s))
    ELSE IF s # <<>> /\ s[Len(s)] \in {".", "_"} THEN StripDots(SubSeq(s, 1, Len(s) - 1))
    ELSE s

RECURSIVE JoinWords(_)
JoinWords(words) ==
    IF words = <<>> THEN <<>>
    ELSE IF Len(words) = 1 THEN words[1]
    ELSE words[1] \o <<"_">> \o JoinWords(Tail(words))

\* str.split(): the non-empty words between runs of white space
RECURSIVE Words(_, _)
Words(s, cur) ==
    IF s = <<>> THEN (IF cur = <<>> THEN <<>> ELSE <<cur>>)
    ELSE IF IsSpace(Head(s))
         THEN (IF cur = <<>> THEN <<>> ELSE <<cur>>) \o Words(Tail(s), <<>>)
         ELSE Words(Tail(s), Append(cur, Head(s)))

secure_filename(name) ==
    StripDots(SelectSeq(JoinWords(Words(Replace(name, <<"/">>, <<" ">>), <<>>)), IsWord))

RawNames ==
    { <<"c", "v">>, <<"m", "y", " ", "c", "v">>, <<"m", "y", "_", "c", "v">>,
      <<".", ".", "/", "c", "v">>, <<".", ".">> }

SafeNames == {secure_filename(n) : n \in RawNames} \ {<<>>}

JobDescriptions == {NoneStr, <<>>, <<"Looking for Go developer">>}

(***************************************************************************)
(* Resume builder forms                                                    *)
(***************************************************************************)
FallbackSummary ==
    <<"Passionate student looking for opportunities to apply skills and grow.">>

Summaries ==
    { NoneStr, <<>>, <<" ">>, <<" ", "\t", "\n">>, <<"a">>, <<" ", "a", "\n">> }

Profiles ==
    { [full_name |-> <<"a", "n", "n">>, edu_degree |-> <<"s", "c", "i">>,
       edu_college |-> <<"c", "i", "t", "y", " ", "u", "n", "i">>,
       edu_year |-> <<"2", "0", "2", "4">>, edu_grade |-> NoneStr,
       skills |-> <<"a", ",", " ", " ", "c", ",">>],
      [full_name |-> NoneStr, edu_degree |-> <<>>,
       edu_college |-> <<"u", "n", "i", "v", "e", "r", "s", "i", "t", "y">>,
       edu_year |-> NoneStr, edu_grade |-> <<"A">>,
       skills |-> NoneStr] }

\* an f-string's rendering of a str-or-None
Fmt(v) == IF v = NoneStr THEN <<"N", "o", "n", "e">> ELSE v

\* f"{degree}\n{college}\nYear: {year} | Grade: {grade}"
formatted_education(degree, college, year, grade) ==
    degree \o <<"\n">> \o college \o <<"\n", "Year: ">> \o Fmt(year)
        \o <<" | Grade: ">> \o Fmt(grade)

\* variant: a white-space-only summary counts as supplied
summary_missing_no_strip(summary) == Falsy(summary)

\* not summary or summary.strip() == ""
summary_missing(summary) == Falsy(summary) \/ Strip(summary) = <<>>

SynthesisOutcomes ==
    {Raised(c) : c \in EngineFailures}
        \cup {Replied(t) : t \in {<<"Driven graduate.">>, <<" ", "Driven graduate.", "\n">>}}

\* the summary after the try/except around the synthesize call
synthesized_summary(outcome) ==
    IF outcome.raised THEN FallbackSummary ELSE Strip(outcome.text)

NoDraft ==
    [full_name |-> NoneStr, summary |-> NoneStr, skills |-> NoneStr,
     education |-> NoneStr, supplied |-> NoneStr]

(***************************************************************************)
(* State                                                                   *)
(***************************************************************************)
VARIABLES
    GEMINI_KEY,   \* whether os.getenv('GEMINI_API_KEY') gave a key at start
    uploads,      \* the upload folder: sanitized file name -> file
    ats_scans,    \* table ATSScan, in insertion order
    resumes,      \* table Resume, in insertion order
    route,        \* per request: "none", "ats" or "builder"
    pc,           \* per request: the handler's position
    upload,       \* per request: the sanitized file name and the document sent
    text,         \* per request: ats_tool's local text
    result,       \* per request: ats_tool's local result
    outcome,      \* per request: what the engine call did (history)
    calls,        \* per request: number of generate_content calls made
    flashed,      \* per request: the messages flashed
    commit,       \* per request: how db.session.commit() ended (history)
    draft,        \* per request: resume_builder's locals
    text_in,      \* formatter input under test
    text_once,    \* smart_format_text(text_in)
    text_twice,   \* smart_format_text(text_once)
    skills_out,   \* smart_format_skills(text_in)
    text_pc,      \* "off", "new", "once", "twice"
    skills_pc     \* "off", "new", "done"

appVars ==
    <<GEMINI_KEY, uploads, ats_scans, resumes, route, pc, upload, text, result,
      outcome, calls, flashed, commit, draft>>
textVars == <<text_in, text_once, text_twice, skills_out, text_pc, skills_pc>>
vars == <<appVars, textVars>>

\* the requests in flight at the same time: the claims about concurrent
\* requests are about pairs of them
Requests == {1, 2}

NoUpload == [filename |-> <<>>, doc |-> DocCorrupt]

UnreadableWarning == "Could not read PDF. Make sure it contains text."

InitApp ==
    /\ GEMINI_KEY \in BOOLEAN
    /\ uploads = [n \in SafeNames |-> NoFile]
    /\ ats_scans = <<>>
    /\ resumes = <<>>
    /\ route = [r \in Requests |-> "none"]
    /\ pc = [r \in Requests |-> "idle"]
    /\ upload = [r \in Requests |-> NoUpload]
    /\ text = [r \in Requests |-> <<>>]
    /\ result = [r \in Requests |-> None]
    /\ outcome = [r \in Requests |-> NoOutcome]
    /\ calls = [r \in Requests |-> 0]
    /\ flashed = [r \in Requests |-> {}]
    /\ commit = [r \in Requests |-> "none"]
    /\ draft = [r \in Requests |-> NoDraft]

TextOff ==
    /\ text_in = NoneStr
    /\ text_once = NoneStr
    /\ text_twice = NoneStr
    /\ skills_out = NoneStr
    /\ text_pc = "off"
    /\ skills_pc = "off"

Init == InitApp /\ TextOff

(***************************************************************************)
(* ats_tool, POST                                                          *)
(***************************************************************************)
\* variant: the call is skipped when no key was configured
engine_calls_keyed(key) == IF key THEN 1 ELSE 0

\* the number of generate_content calls a handler makes when it reaches the
\* call: neither handler consults GEMINI_KEY
engine_calls(key) == 1

\* variant: the text is analysed whether empty or not
after_extract_always(t) == "analyze"

\* the branch taken on the extracted text
after_extract(t) == IF Falsy(t) THEN "remove" ELSE "analyze"

\* variant: the removal fails and the failure is swallowed
os_remove_noop(files, name) == files

\* os.remove(filepath) inside try/except: removes whatever file is at the
\* path; a missing file raises, which is swallowed
os_remove(files, name) == [files EXCEPT ![name] = NoFile]

\* variant: the default is stored whatever the result holds
score_of_default(res) == JInt(0)

\* result.get('score', 0)
score_of(res) == IF res.score.t = "absent" THEN JInt(0) ELSE res.score

\* the row db.session.add(new_scan) inserts
new_scan(table, r, res) ==
    [id |-> Len(table) + 1, req |-> r, score |-> score_of(res), data |-> res]

\* lines 216-231: the request's checks, secure_filename and file.save
Upload(r) ==
    /\ pc[r] = "idle"
    /\ \E hasPart \in BOOLEAN, raw \in RawNames \cup {<<>>}, jd \in JobDescriptions,
          doc \in Docs :
        /\ route' = [route EXCEPT ![r] = "ats"]
        /\ IF ~hasPart
           THEN /\ flashed' = [flashed EXCEPT ![r] = {"No file part"}]
                /\ pc' = [pc EXCEPT ![r] = "done"]
                /\ UNCHANGED <<uploads, upload>>
           ELSE IF raw = <<>>
           THEN /\ flashed' = [flashed EXCEPT ![r] = {"No selected file"}]
                /\ pc' = [pc EXCEPT ![r] = "done"]
                /\ UNCHANGED <<uploads, upload>>
           ELSE IF Falsy(jd)
           THEN /\ pc' = [pc EXCEPT ![r] = "done"]
                /\ UNCHANGED <<uploads, upload, flashed>>
           ELSE IF secure_filename(raw) = <<>>
           THEN \* file.save on the folder itself raises: the request fails
                /\ pc' = [pc EXCEPT ![r] = "crashed"]
                /\ UNCHANGED <<uploads, upload, flashed>>
           ELSE /\ uploads' = [uploads EXCEPT ![secure_filename(raw)] = FileOf(doc, r)]
                /\ upload' = [upload EXCEPT ![r] =
                                 [filename |-> secure_filename(raw), doc |-> doc]]
                /\ pc' = [pc EXCEPT ![r] = "extract"]
                /\ UNCHANGED flashed
    /\ UNCHANGED <<GEMINI_KEY, commit, ats_scans, resumes, text, result, outcome, calls, draft>>
    /\ UNCHANGED textVars

\* lines 233-236
ExtractText(r) ==
    /\ pc[r] = "extract"
    /\ text' = [text EXCEPT ![r] = extract_text_from_pdf(uploads[upload[r].filename])]
    /\ flashed' = [flashed EXCEPT ![r] =
                      IF Falsy(text'[r]) THEN {UnreadableWarning} ELSE {}]
    /\ pc' = [pc EXCEPT ![r] = after_extract(text'[r])]
    /\ UNCHANGED <<GEMINI_KEY, commit, uploads, ats_scans, resumes, route, upload, result,
                   outcome, calls, draft>>
    /\ UNCHANGED textVars

\* line 238
Analyze(r) ==
    /\ pc[r] = "analyze"
    /\ \E o \in AnalysisOutcomes :
        /\ outcome' = [outcome EXCEPT ![r] = o]
        /\ result' = [result EXCEPT ![r] = analyze_with_gemini(o)]
    /\ calls' = [calls EXCEPT ![r] = @ + engine_calls(GEMINI_KEY)]
    /\ pc' = [pc EXCEPT ![r] = "persist"]
    /\ UNCHANGED <<GEMINI_KEY, commit, uploads, ats_scans, resumes, route, upload, text,
                   flashed, draft>>
    /\ UNCHANGED textVars

\* lines 239-248: result.get raises on a non-dict, the commit may raise; both
\* end in the except branch, which only logs
Persist(r) ==
    /\ pc[r] = "persist"
    /\ \E committed \in BOOLEAN :
        IF result[r].kind = "dict" /\ committed
        THEN /\ ats_scans' = Append(ats_scans, new_scan(ats_scans, r, result[r]))
             /\ commit' = [commit EXCEPT ![r] = "ok"]
        ELSE /\ ats_scans' = ats_scans
             /\ commit' = [commit EXCEPT ![r] = "error"]
    /\ pc' = [pc EXCEPT ![r] = "remove"]
    /\ UNCHANGED <<GEMINI_KEY, uploads, resumes, route, upload, text, result,
                   outcome, calls, flashed, draft>>
    /\ UNCHANGED textVars

\* lines 250-255
Remove(r) ==
    /\ pc[r] = "remove"
    /\ uploads' = os_remove(uploads, upload[r].filename)
    /\ pc' = [pc EXCEPT ![r] = "done"]
    /\ UNCHANGED <<GEMINI_KEY, commit, ats_scans, resumes, route, upload, text, result,
                   outcome, calls, flashed, draft>>
    /\ UNCHANGED textVars

(***************************************************************************)
(* resume_builder, POST                                                    *)
(***************************************************************************)
\* lines 262-282
BuildStart(r) ==
    /\ pc[r] = "idle"
    /\ \E f \in Profiles, summary \in Summaries :
        /\ draft' = [draft EXCEPT ![r] =
              [full_name |-> smart_format_text(f.full_name),
               summary |-> summary,
               skills |-> smart_format_skills(f.skills),
               education |-> formatted_education(smart_format_text(f.edu_degree),
                                smart_format_text(f.edu_college), f.edu_year, f.edu_grade),
               supplied |-> summary]]
        /\ pc' = [pc EXCEPT ![r] = IF summary_missing(summary) THEN "synthesize" ELSE "save"]
    /\ route' = [route EXCEPT ![r] = "builder"]
    /\ UNCHANGED <<GEMINI_KEY, commit, uploads, ats_scans, resumes, upload, text, result,
                   outcome, calls, flashed>>
    /\ UNCHANGED textVars

\* lines 283-294
Synthesize(r) ==
    /\ pc[r] = "synthesize"
    /\ \E o \in SynthesisOutcomes :
        /\ outcome' = [outcome EXCEPT ![r] = o]
        /\ draft' = [draft EXCEPT ![r].summary = synthesized_summary(o)]
    /\ calls' = [calls EXCEPT ![r] = @ + engine_calls(GEMINI_KEY)]
    /\ pc' = [pc EXCEPT ![r] = "save"]
    /\ UNCHANGED <<GEMINI_KEY, commit, uploads, ats_scans, resumes, route, upload, text,
                   result, flashed>>
    /\ UNCHANGED textVars

\* lines 296-311: the commit is not guarded, so a storage failure fails the
\* request
SaveResume(r) ==
    /\ pc[r] = "save"
    /\ \E committed \in BOOLEAN :
        IF committed
        THEN /\ resumes' = Append(resumes,
                    [id |-> Len(resumes) + 1, req |-> r,
                     full_name |-> draft[r].full_name, summary |-> draft[r].summary,
                     skills |-> draft[r].skills, education |-> draft[r].education])
             /\ commit' = [commit EXCEPT ![r] = "ok"]
             /\ pc' = [pc EXCEPT ![r] = "done"]
        ELSE /\ resumes' = resumes
             /\ commit' = [commit EXCEPT ![r] = "error"]
             /\ pc' = [pc EXCEPT ![r] = "crashed"]
    /\ UNCHANGED <<GEMINI_KEY, uploads, ats_scans, route, upload, text, result,
                   outcome, calls, flashed, draft>>
    /\ UNCHANGED textVars

Next ==
    \E r \in Requests :
        \/ Upload(r)
        \/ ExtractText(r)
        \/ Analyze(r)
        \/ Persist(r)
        \/ Remove(r)
        \/ BuildStart(r)
        \/ Synthesize(r)
        \/ SaveResume(r)

Spec == Init /\ [][Next]_vars

(***************************************************************************)
(* The formatters applied to enumerated inputs                             *)
(***************************************************************************)
Alphabet == {" ", ",", "u", "n", "i"}

Samples ==
    { <<"a", " ", "u", "n", "i", "v", "e", "r", "s", "i", "t", "y">>,
      <<"U", "n", "i", "v", "e", "r", "s", "i", "t", "y">>,
      <<"a", "\t", "u", "n", "i">>,
      <<"n", "u", ".", "i", "s", ",", "\n", ",", "N", "U">> }

Inputs ==
    UNION {[1..n -> Alphabet] : n \in 0..MaxLen} \cup Samples \cup {NoneStr}

InitText ==
    /\ InitApp
    /\ GEMINI_KEY = TRUE
    /\ text_in \in Inputs
    /\ text_once = NoneStr
    /\ text_twice = NoneStr
    /\ skills_out = NoneStr
    /\ text_pc = "new"
    /\ skills_pc = "new"

FormatText ==
    /\ text_pc = "new"
    /\ text_once' = smart_format_text(text_in)
    /\ text_pc' = "once"
    /\ UNCHANGED <<text_in, text_twice, skills_out, skills_pc>>
    /\ UNCHANGED appVars

FormatTextAgain ==
    /\ text_pc = "once"
    /\ text_twice' = smart_format_text(text_once)
    /\ text_pc' = "twice"
    /\ UNCHANGED <<text_in, text_once, skills_out, skills_pc>>
    /\ UNCHANGED appVars

FormatSkills ==
    /\ skills_pc = "new"
    /\ skills_out' = smart_format_skills(text_in)
    /\ skills_pc' = "done"
    /\ UNCHANGED <<text_in, text_once, text_twice, text_pc>>
    /\ UNCHANGED appVars

NextText == FormatText \/ FormatTextAgain \/ FormatSkills

SpecText == InitText /\ [][NextText]_vars

(***************************************************************************)
(* Properties of the formatters (under SpecText)                           *)
(***************************************************************************)
\* the formatter input as a string (None formats like "")
InStr == IF text_in = NoneStr THEN <<>> ELSE text_in

\* s.split(", ") of a non-empty s; no token of "" 
RECURSIVE SplitSep(_, _)
SplitSep(s, cur) ==
    IF s = <<>> THEN <<cur>>
    ELSE IF StartsWith(s, <<",", " ">>)
         THEN <<cur>> \o SplitSep(SubSeq(s, 3, Len(s)), <<>>)
         ELSE SplitSep(Tail(s), Append(cur, Head(s)))

PresentedTokens(out) == IF out = <<>> THEN <<>> ELSE SplitSep(out, <<>>)

\* the maximal delimiter-free runs of s, as <<first, last>> index pairs
Runs(s) ==
    { run \in (1..Len(s)) \X (1..Len(s)) :
        /\ run[1] <= run[2]
        /\ \A k \in run[1]..run[2] : ~IsDelim(s[k])
        /\ run[1] = 1 \/ IsDelim(s[run[1] - 1])
        /\ run[2] = Len(s) \/ IsDelim(s[run[2] + 1]) }

IsUpper(c) == \E k \in 1..Len(UpperLetters) : UpperLetters[k] = c

\* every cased character is upper case exactly when it starts a cased run
IsTitleCased(t) ==
    \A k \in 1..Len(t) :
        IsCased(t[k]) => (IsUpper(t[k]) <=> (k = 1 \/ ~IsCased(t[k - 1])))

SameIgnoringCase(a, b) ==
    /\ Len(a) = Len(b)
    /\ \A k \in 1..Len(a) : LowerChar(a[k]) = LowerChar(b[k])

SkillTokensWellFormed(toks) ==
    /\ Cardinality(Runs(InStr)) = Len(toks)
    /\ \A run \in Runs(InStr) :
        SameIgnoringCase(toks[Cardinality({q \in Runs(InStr) : q[1] <= run[1]})],
                         SubSeq(InStr, run[1], run[2]))
    /\ \A k \in 1..Len(toks) :
        /\ toks[k] # <<>>
        /\ ~IsSpace(toks[k][1]) /\ ~IsSpace(toks[k][Len(toks[k])])
        /\ IsTitleCased(toks[k])

\* C6: smart_format_text is idempotent: formatting its own output gives that
\* output again
C6_Idempotent == text_pc = "twice" => text_twice = text_once

\* C9 as stated: the output of smart_format_skills is the ", "-join of the
\* input's fragments in input order, none empty, none with leading or
\* trailing white space, each title-cased, and no two tokens equal
C9_SkillListDeduplicated ==
    skills_pc = "done" =>
        /\ SkillTokensWellFormed(PresentedTokens(skills_out))
        /\ \A i, j \in 1..Len(PresentedTokens(skills_out)) :
            i # j => PresentedTokens(skills_out)[i] # PresentedTokens(skills_out)[j]

\* C9 as amended: the output of smart_format_skills is the ", "-join of the
\* input's fragments in input order, none empty, none with leading or
\* trailing white space, each title-cased; equal tokens are all kept
C9_SkillList ==
    skills_pc = "done" => SkillTokensWellFormed(PresentedTokens(skills_out))

\* an input with adjacent delimiters, a leading delimiter and a repeated skill
C9_Witness ==
    /\ skills_pc = "done"
    /\ text_in = <<",", "u", " ", " ", "u">>
    /\ skills_out = <<"U", ",", " ", "U">>

(***************************************************************************)
(* Properties of the handlers (under Spec)                                 *)
(***************************************************************************)
\* request r saved its upload to the folder
Saved(r) == route[r] = "ats" /\ upload[r].filename # <<>>

\* request r has run extract_text_from_pdf
Extracted(r) == Saved(r) /\ pc[r] \in {"analyze", "persist", "remove", "done"}

\* request r's extraction gave no text
ExtractedEmpty(r) == Extracted(r) /\ text[r] = <<>>

\* request r has returned from analyze_with_gemini
Analyzed(r) ==
    Saved(r) /\ text[r] # <<>> /\ pc[r] \in {"persist", "remove", "done"}

\* the rows of ATSScan that request r inserted
ScansOf(r) == {k \in 1..Len(ats_scans) : ats_scans[k].req = r}

IsStandardFailure(res, cause) ==
    /\ res.kind = "dict"
    /\ res.score = JInt(0)
    /\ res.summary.t = "str"
    /\ res.summary.s = <<"AI Analysis Failed. Error: ", cause>>
    /\ res.grammar_errors = JList(<<>>)
    /\ res.missing_keywords = JList(<<>>)
    /\ res.improvements = JList(<<FailureHint>>)

\* a reply that is not structured data: it holds prose or a truncated object
Unparseable(reply) == \E k \in 1..Len(reply) : reply[k] \in {"prose", "{truncated"}

\* C1 as stated: a scan whose document yields empty extracted text returns a
\* failure result (a dict with score 0 and a summary) and calls the engine
\* zero times
C1_EmptyTextFailureResult ==
    \A r \in Requests :
        ExtractedEmpty(r) /\ pc[r] = "done" =>
            /\ result[r].kind = "dict"
            /\ result[r].score = JInt(0)
            /\ result[r].summary.t = "str"
            /\ calls[r] = 0

\* C1 as amended: a scan whose document yields empty extracted text returns
\* no result (None), flashes the unreadable-document warning, stores no scan
\* and calls the engine zero times
C1_EmptyTextNoResult ==
    \A r \in Requests :
        ExtractedEmpty(r) =>
            /\ result[r] = None
            /\ flashed[r] = {UnreadableWarning}
            /\ ScansOf(r) = {}
            /\ calls[r] = 0

\* a finished scan of an image-only document
C1_Witness ==
    \E r \in Requests :
        /\ ExtractedEmpty(r) /\ pc[r] = "done"
        /\ upload[r].doc = DocScanned

\* C2: when the engine call raises or the reply does not parse, the analysis
\* step returns the standard failure result: score 0, a summary embedding the
\* cause, no grammar errors, no missing keywords, and the one fixed hint
C2_StandardFailure ==
    \A r \in Requests :
        Analyzed(r) =>
            /\ outcome[r].raised => IsStandardFailure(result[r], outcome[r].cause)
            /\ ~outcome[r].raised /\ Unparseable(outcome[r].text) =>
                   IsStandardFailure(result[r], JSONDecodeError)

\* one request whose call raised and one whose reply was truncated
C2_Witness ==
    \E r1, r2 \in Requests :
        /\ Analyzed(r1) /\ outcome[r1].raised
        /\ Analyzed(r2) /\ outcome[r2] = Replied(<<FenceJson, "\n", "{truncated">>)

\* C3: every result the analysis step returns is a complete AnalysisResult: a
\* dict with an integer score in 0..100, a text summary and three lists
C3_CompleteResult ==
    \A r \in Requests :
        Analyzed(r) =>
            /\ result[r].kind = "dict"
            /\ result[r].score.t = "int"
            /\ result[r].score.n \in 0..100
            /\ result[r].summary.t = "str"
            /\ result[r].grammar_errors.t = "list"
            /\ result[r].missing_keywords.t = "list"
            /\ result[r].improvements.t = "list"

C5_OwnDocument ==
    \A r \in Requests :
        Extracted(r) => text[r] = extract_text_from_pdf(FileOf(upload[r].doc, r))

\* C7 as stated: with no credential, no request calls the engine
C7_NoKeyNoCall ==
    ~GEMINI_KEY => \A r \in Requests : calls[r] = 0

\* request r is a draft request that has passed the summary step without a
\* supplied summary
SynthesisDue(r) ==
    /\ route[r] = "builder"
    /\ pc[r] \in {"save", "done", "crashed"}
    /\ \/ draft[r].supplied = NoneStr
       \/ \A k \in 1..Len(draft[r].supplied) : IsSpace(draft[r].supplied[k])

\* C7 as amended: with no credential nothing short-circuits: an analysis of
\* non-empty text and a draft without summary each make one engine call, and
\* get the failure result or the fallback sentence when that call raises
C7_NoKeyStillCalls ==
    ~GEMINI_KEY =>
        \A r \in Requests :
            /\ Analyzed(r) =>
                /\ calls[r] = 1
                /\ outcome[r].raised => IsStandardFailure(result[r], outcome[r].cause)
            /\ SynthesisDue(r) =>
                /\ calls[r] = 1
                /\ outcome[r].raised => draft[r].summary = FallbackSummary

\* no credential: a scan whose call was refused and a draft that fell back
C7_Witness ==
    /\ ~GEMINI_KEY
    /\ \E r1, r2 \in Requests :
        /\ Analyzed(r1) /\ outcome[r1] = Raised("API key not valid")
        /\ SynthesisDue(r2) /\ pc[r2] = "done" /\ draft[r2].summary = FallbackSummary

\* C8: a draft request with an absent, empty or white-space-only summary makes
\* exactly one engine call, also when it raises; one whose summary has a
\* non-white-space character makes none and keeps and stores it unchanged
C8_SummaryCalls ==
    \A r \in Requests :
        route[r] = "builder" =>
            /\ SynthesisDue(r) => calls[r] = 1
            /\ pc[r] = "synthesize" => calls[r] = 0
            /\ pc[r] \in {"save", "done", "crashed"} /\ ~SynthesisDue(r) =>
                /\ calls[r] = 0
                /\ draft[r].summary = draft[r].supplied
                /\ \A k \in 1..Len(resumes) :
                    resumes[k].req = r => resumes[k].summary = draft[r].supplied

\* a white-space-only summary whose call raised, and a padded summary stored
C8_Witness ==
    \E r1, r2 \in Requests :
        /\ route[r1] = "builder" /\ pc[r1] = "done"
        /\ draft[r1].supplied = <<" ", "\t", "\n">> /\ outcome[r1].raised
        /\ route[r2] = "builder" /\ pc[r2] = "done"
        /\ draft[r2].supplied = <<" ", "a", "\n">>
        /\ \E k \in 1..Len(resumes) :
            resumes[k].req = r2 /\ resumes[k].summary = <<" ", "a", "\n">>

\* C10 as stated: a finished scan whose analysis produced a result has
\* exactly one stored scan, with the result's score; one whose extraction was
\* empty has none
C10_ExactlyOneRecord ==
    \A r \in Requests :
        /\ Analyzed(r) /\ pc[r] = "done" =>
            /\ Cardinality(ScansOf(r)) = 1
            /\ \A k \in ScansOf(r) : ats_scans[k].score = result[r].score
        /\ ExtractedEmpty(r) => ScansOf(r) = {}

\* C10 as amended: a finished scan whose analysis produced a result has one
\* stored scan when the result is an object and the commit succeeded and none
\* otherwise; the stored score is the result's score, or 0 when the result
\* has none; a scan whose extraction was empty has none
C10_OneRecordIfCommitted ==
    \A r \in Requests :
        /\ Analyzed(r) /\ pc[r] \in {"remove", "done"} =>
            /\ Cardinality(ScansOf(r)) =
                   (IF result[r].kind = "dict" /\ commit[r] = "ok" THEN 1 ELSE 0)
            /\ \A k \in ScansOf(r) :
                /\ ats_scans[k].data = result[r]
                /\ ats_scans[k].score =
                       (IF result[r].score.t = "absent" THEN JInt(0) ELSE result[r].score)
        /\ Analyzed(r) /\ pc[r] = "persist" => ScansOf(r) = {}
        /\ ExtractedEmpty(r) => ScansOf(r) = {}

\* one scan stored with score 82, one whose commit failed
C10_Witness ==
    \E r1, r2 \in Requests :
        /\ Analyzed(r1) /\ pc[r1] = "done" /\ result[r1] = FullObject
        /\ \E k \in ScansOf(r1) : ats_scans[k].score = JInt(82)
        /\ Analyzed(r2) /\ pc[r2] = "done" /\ result[r2].kind = "dict"
        /\ commit[r2] = "error" /\ ScansOf(r2) = {}

====
